---- MODULE Spec2Model ----
(***************************************************************************)
(* SafeJourney authentication backend: the user collection (Mongoose       *)
(* model User), the auth controller (signup, login, logout, refresh,       *)
(* sendOTP, verifyOTP, resetPassword), the protect middleware and the      *)
(* global error handler.  Every handler is one action; the state is the    *)
(* collection, the clock, the process configuration and what the client    *)
(* last sent and received.                                                  *)
(*                                                                         *)
(* Time is counted in units of ten minutes (the OTP validity window).      *)
(***************************************************************************)
EXTENDS Integers, Sequences, FiniteSets, TLC

VARIABLES
    users,          \* the User collection: a set of stored documents
    nextId,         \* the next fresh _id (ObjectIds are never reused)
    now,            \* Date.now(), in units of ten minutes
    env,            \* process.env: the values the handlers read
    strictQuery,    \* Mongoose's strictQuery option of the build
    issued,         \* the reset tickets verifyOTP returned that are still outstanding
    lastSet,        \* per _id, the plaintext the last successful signup or reset set
    inflight,       \* per worker, the signup or reset it is in the middle of
    req,            \* the request just handled
    res             \* the response just sent

vars == <<users, nextId, now, env, strictQuery, issued, lastSet, inflight, req, res>>

(***************************************************************************)
(* Bounds of the model.                                                    *)
(***************************************************************************)
MaxUsers == 2       \* documents ever created
MaxTime == 3        \* the clock stops here

(***************************************************************************)
(* Values.                                                                 *)
(***************************************************************************)
Undefined == "undefined"        \* JavaScript's undefined: a field not sent or not set
NoDate == -1                    \* an unset Date field

Emails == {"a@b.com", "A@B.com", "c@d.com"}
Phones == {"+100", " +100", "+200"}
Passwords == {"secret1", "secret2", "abc"}
Salts == {"s1", "s2"}
Otps == {"111111", "222222"}            \* two of the codes in [100000, 999999]
RandomHex == {"f00d", "beef"}           \* two of the values of randomBytes(20).toString('hex')

\* String.prototype.toLowerCase on the e-mail values of the model.
toLowerCase(e) == IF e = "A@B.com" THEN "a@b.com" ELSE e

\* String.prototype.trim on the phone numbers of the model.
trim(p) == IF p = " +100" THEN "+100" ELSE p

\* The length of the passwords of the model.
strlen(p) == IF p = "" THEN 0 ELSE IF p = "abc" THEN 3 ELSE 7
minlength == 6

\* crypto.createHash('sha256').update(x).digest('hex')
sha256(x) == "sha256(" \o x \o ")"

\* bcrypt.hash(plain, salt): the salt is part of the hash string.
bcryptHash(plain, salt) == "$2a$" \o salt \o "$" \o plain

\* bcrypt.compare(candidate, hash): re-hash the candidate with the salt in the hash.
bcryptCompare(candidate, hash) == \E s \in Salts : hash = bcryptHash(candidate, s)

(***************************************************************************)
(* The User schema and the collection.                                     *)
(***************************************************************************)
\* The paths the schema declares.  Mongoose (strict mode, the default) saves
\* and loads these paths only.
SchemaPaths == {"fullname", "phonenumber", "email", "password"}

\* A document of the model carries every field a handler touches; a field that
\* is no schema path is Undefined / NoDate in every stored document.
NewDoc(id, fullname, phonenumber, email, password) ==
    [id |-> id, fullname |-> fullname, phonenumber |-> phonenumber,
     email |-> email, password |-> password,
     resetPasswordToken |-> Undefined, resetPasswordExpire |-> NoDate]

\* castPath without the schema's setters (a schema that does not declare
\* lowercase and trim).
castPathNoSetters(path, value) == value

\* The schema's setters, applied to values written and to query filters.
castPath(path, value) ==
    IF value = Undefined THEN Undefined
    ELSE IF path = "email" THEN toLowerCase(value)
    ELSE IF path = "phonenumber" THEN trim(value)
    ELSE value

\* The documents a filter {path: value} selects.  A key whose value is
\* undefined is dropped from the filter, and so is a key that is no schema
\* path when strictQuery is on: the filter is then {} and selects everything.
findMatches(path, value) ==
    IF value = Undefined THEN users
    ELSE IF path \notin SchemaPaths /\ strictQuery THEN users
    ELSE {u \in users : u[path] = castPath(path, value)}

\* findById that looks up no _id: findOne({}).
findByIdAny(id) == users

\* findById(id): findOne({_id: id}).
findById(id) == {u \in users : u.id = id}

\* The fields of an in-memory document that save() writes: the schema paths.
persisted(doc, stored) ==
    [f \in DOMAIN doc |-> IF f \in SchemaPaths THEN doc[f] ELSE stored[f]]

\* A pre-save hook that hashes nothing.
preSaveNoHash(doc, modified, salt) == doc

\* A pre-save hook that hashes the password on every save.
preSaveAlways(doc, modified, salt) ==
    [doc EXCEPT !.password = bcryptHash(doc.password, salt)]

\* UserSchema.pre('save'): hash the password when it was modified.
preSave(doc, modified, salt) ==
    IF "password" \notin modified THEN doc
    ELSE [doc EXCEPT !.password = bcryptHash(doc.password, salt)]

\* Schema validation of a document about to be saved (it runs before the
\* pre-save hook, on the plaintext password).  Every e-mail of the model
\* matches the schema's pattern and every required field is present.
validates(doc, modified) ==
    /\ "password" \in modified => strlen(doc.password) >= minlength

\* A collection without unique indexes.
uniqueOkNoIndex(doc) == TRUE

\* The unique indexes on email and phonenumber.
uniqueOk(doc) ==
    \A u \in users : u.id # doc.id =>
        /\ u.email # doc.email
        /\ u.phonenumber # doc.phonenumber

\* The collection after doc replaced the stored document with its _id.
replaceDoc(doc) == {u \in users : u.id # doc.id} \cup {doc}

(***************************************************************************)
(* JSON web tokens.                                                        *)
(***************************************************************************)
JWT_SECRET == "k_access"
OtherSecret == "k_other"                \* a key the server does not use
RefreshSecrets == {"k_refresh", Undefined}

JWT_EXPIRES_IN == 2                     \* access token lifetime of the deployment
JWT_REFRESH_EXPIRES_IN == 3             \* refresh token lifetime of the deployment
OtpWindow == 1                          \* 10 * 60 * 1000 ms

NoToken == [kind |-> "undefined", id |-> 0, key |-> Undefined, exp |-> 0]
Garbage == [kind |-> "garbage", id |-> 0, key |-> Undefined, exp |-> 0]

\* jwt.sign({id}, secret, {expiresIn})
jwtSign(id, secret, expiresIn) ==
    [kind |-> "jwt", id |-> id, key |-> secret, exp |-> now + expiresIn]

\* jwt.verify with ignoreExpiration.
jwtVerifiesNoExpiry(token, secret) ==
    /\ token.kind = "jwt"
    /\ secret # Undefined
    /\ token.key = secret

\* jwt.verify behind a revocation list: the token of the last logout is refused.
jwtVerifiesRevoking(token, secret) ==
    /\ jwtVerifiesNoExpiry(token, secret)
    /\ now < token.exp
    /\ ~(req.route = "logout" /\ res.status = 200 /\ req.header.token = token)

\* jwt.verify(token, secret) does not throw: a well-formed token, signed with
\* this secret, not yet expired.
jwtVerifies(token, secret) ==
    /\ token.kind = "jwt"
    /\ secret # Undefined
    /\ token.key = secret
    /\ now < token.exp

refreshSecret == IF env.JWT_REFRESH_SECRET # Undefined THEN env.JWT_REFRESH_SECRET
                 ELSE env.JWT_SECRET

generateAccessToken(id) == jwtSign(id, env.JWT_SECRET, JWT_EXPIRES_IN)

generateRefreshToken(id) == jwtSign(id, refreshSecret, JWT_REFRESH_EXPIRES_IN)

(***************************************************************************)
(* Requests and responses.                                                 *)
(***************************************************************************)
NoDoc == NewDoc(0, Undefined, Undefined, Undefined, Undefined)

\* An Authorization header is the text before its first space and the token
\* after it (split(' ')[1]); a request without the header has neither.
NoHeader == [scheme |-> Undefined, token |-> NoToken]

\* The texts before the first space of the headers of the model.
Schemes == {"Bearer", "BearerX", "Basic"}

\* authorization.startsWith('Bearer')
startsWithBearer(header) == header.scheme \in {"Bearer", "BearerX"}

NoReq == [op |-> "none", email |-> Undefined, password |-> Undefined,
          confirm |-> Undefined, otp |-> Undefined, ticket |-> Undefined,
          token |-> NoToken, header |-> NoHeader, route |-> "none"]

NoRes == [status |-> 0, message |-> "none", accessToken |-> NoToken,
          refreshToken |-> NoToken, user |-> 0, otp |-> Undefined,
          ticket |-> Undefined, sent |-> 0, gateSent |-> 0, next |-> FALSE,
          reqUser |-> NoDoc, body |-> NoDoc, list |-> {}, gateLookups |-> 0]

\* res.status(code).json({message})
json(status, message) ==
    [NoRes EXCEPT !.status = status, !.message = message, !.sent = 1]

\* sendTokenResponse(user, statusCode, res)
sendTokenResponse(user, statusCode) ==
    [NoRes EXCEPT !.status = statusCode, !.message = "success", !.sent = 1,
                  !.accessToken = generateAccessToken(user.id),
                  !.refreshToken = generateRefreshToken(user.id),
                  !.user = user.id,
                  !.body = [NoDoc EXCEPT !.id = user.id, !.fullname = user.fullname,
                                         !.email = user.email]]

\* globalErrorHandler(err): err is "AppError" or the name of another error.
\* An AppError gets its own response, and then the generic one is sent as well.
globalErrorHandler(err, statusCode, message) ==
    IF err = "AppError"
    THEN [json(statusCode, message) EXCEPT !.sent = 2]
    ELSE json(500, "Something went wrong")

\* catchAsync(fn): a rejection of the handler goes to next(err), that is to
\* the global error handler.
catchAsync(err) == globalErrorHandler(err, 500, err)

\* A query without select: the whole stored document.
selectAll(doc) == doc

\* Query.select('-password'): the document without its password.
selectMinusPassword(doc) == [doc EXCEPT !.password = Undefined]

\* The requests being handled at the same time: each worker is idle, between
\* the existence check of signup and User.create, between the lookup of
\* resetPassword and its save, or done.  doc is the document in the handler's
\* memory, read the document as the lookup returned it, ticket the
\* temporaryResetToken of the request.
Workers == {"w1", "w2"}
Idle == [op |-> "none", stage |-> "idle", doc |-> NoDoc, read |-> NoDoc,
         ticket |-> Undefined, res |-> NoRes]

(***************************************************************************)
(* Initial state: an empty collection.  The process configuration and the  *)
(* Mongoose build are fixed at start.                                      *)
(***************************************************************************)
Init ==
    /\ users = {}
    /\ nextId = 1
    /\ now = 0
    /\ env \in [JWT_SECRET : {JWT_SECRET}, JWT_REFRESH_SECRET : RefreshSecrets]
    /\ strictQuery \in BOOLEAN
    /\ issued = {}
    /\ lastSet = {}
    /\ inflight = [w \in Workers |-> Idle]
    /\ req = NoReq
    /\ res = NoRes

(***************************************************************************)
(* signup                                                                  *)
(***************************************************************************)
\* signup up to the existence check: the response it sends, or NoRes when it
\* goes on to User.create.
signupChecks(email, password, passwordConfirm) ==
    IF email = Undefined \/ password = Undefined \/ passwordConfirm = Undefined
    THEN json(400, "Please enter all required fields.")
    ELSE IF password # passwordConfirm
    THEN json(400, "Passwords do not match.")
    ELSE IF findMatches("email", email) # {}
    THEN json(400, "User already exists with this email.")
    ELSE NoRes

\* User.create(doc) and the response after it: validation, the pre-save hook
\* (the salt is the one bcrypt.genSalt generates; bcrypt may also throw), the
\* insert under the unique indexes.
signupCreates(doc) ==
    IF ~validates(doc, {"email", "password"})
    THEN {[res |-> catchAsync("ValidationError"), users |-> users]}
    ELSE IF ~uniqueOk(doc)
    THEN {[res |-> catchAsync("E11000"), users |-> users]}
    ELSE {[res |-> sendTokenResponse(doc, 201),
           users |-> users \cup {preSave(doc, {"password"}, salt)}] : salt \in Salts}
         \cup {[res |-> catchAsync("Error"), users |-> users]}

\* The pairs <<password, passwordConfirm>> of the signups of the model: a
\* valid pair, a pair that is too short, a mismatch, a missing password.
SignupPasswords ==
    {<<"secret1", "secret1">>, <<"abc", "abc">>, <<"secret1", "abc">>,
     <<Undefined, "secret1">>}

\* signup: the outcomes for one request.
signupResult(email, phonenumber, password, passwordConfirm) ==
    LET doc == NewDoc(nextId, "A B", castPath("phonenumber", phonenumber),
                      castPath("email", email), password)
    IN  IF signupChecks(email, password, passwordConfirm) # NoRes
        THEN {[res |-> signupChecks(email, password, passwordConfirm), users |-> users]}
        ELSE signupCreates(doc)

\* What the last successful signup or reset set as the password of an _id.
setPassword(id, password) ==
    {l \in lastSet : l.id # id} \cup {[id |-> id, password |-> password]}

signup ==
    /\ nextId <= MaxUsers
    /\ \E email \in Emails \cup {Undefined}, phonenumber \in Phones,
          pair \in SignupPasswords :
          LET password == pair[1]
              passwordConfirm == pair[2]
          IN
          \E r \in signupResult(email, phonenumber, password, passwordConfirm) :
              /\ users' = r.users
              /\ nextId' = IF r.users # users THEN nextId + 1 ELSE nextId
              /\ lastSet' = IF r.users # users THEN setPassword(nextId, password)
                            ELSE lastSet
              /\ req' = [NoReq EXCEPT !.op = "signup", !.email = email,
                                      !.password = password]
              /\ res' = r.res
    /\ UNCHANGED <<now, env, strictQuery, issued, inflight>>

\* Two signups handled at the same time: signupBegin is the handler up to the
\* await of User.create, signupFinish is User.create and the response.
signupBegin(w) ==
    /\ inflight[w].stage = "idle"
    /\ \E email \in Emails \cup {Undefined}, phonenumber \in Phones,
          pair \in SignupPasswords :
          LET password == pair[1]
              passwordConfirm == pair[2]
              early == signupChecks(email, password, passwordConfirm)
              doc == NewDoc(0, "A B", castPath("phonenumber", phonenumber),
                            castPath("email", email), password)
          IN  /\ inflight' = [inflight EXCEPT ![w] =
                     IF early # NoRes
                     THEN [Idle EXCEPT !.op = "signup", !.stage = "done",
                                       !.res = early]
                     ELSE [Idle EXCEPT !.op = "signup", !.stage = "create",
                                       !.doc = doc]]
              /\ req' = [NoReq EXCEPT !.op = "signupBegin", !.email = email,
                                      !.password = password]
              /\ res' = early
    /\ UNCHANGED <<users, nextId, now, env, strictQuery, issued, lastSet>>

signupFinish(w) ==
    /\ inflight[w].stage = "create"
    /\ nextId <= MaxUsers
    /\ LET doc == [inflight[w].doc EXCEPT !.id = nextId]
       IN  \E r \in signupCreates(doc) :
              /\ users' = r.users
              /\ nextId' = IF r.users # users THEN nextId + 1 ELSE nextId
              /\ lastSet' = IF r.users # users THEN setPassword(nextId, doc.password)
                            ELSE lastSet
              /\ inflight' = [inflight EXCEPT ![w] =
                                 [inflight[w] EXCEPT !.stage = "done", !.doc = doc,
                                                     !.res = r.res]]
              /\ req' = [NoReq EXCEPT !.op = "signupFinish", !.email = doc.email,
                                      !.password = doc.password]
              /\ res' = r.res
    /\ UNCHANGED <<now, env, strictQuery, issued>>

(***************************************************************************)
(* login                                                                   *)
(***************************************************************************)
\* comparePassword as a comparison of the candidate with the stored string.
comparePasswordPlain(user, candidatePassword) == user.password = candidatePassword

\* UserSchema.methods.comparePassword
comparePassword(user, candidatePassword) ==
    bcryptCompare(candidatePassword, user.password)

\* The responses login can give: findOne returns one of the matching documents.
loginResult(email, password) ==
    IF email = Undefined \/ password = Undefined
    THEN {json(400, "Please enter both email and password.")}
    ELSE IF findMatches("email", email) = {}
    THEN {json(401, "Invalid credentials")}
    ELSE {IF comparePassword(u, password)
          THEN sendTokenResponse(u, 200)
          ELSE json(401, "Invalid credentials") : u \in findMatches("email", email)}

login ==
    /\ \E email \in Emails \cup {Undefined}, password \in Passwords \cup {Undefined} :
          \E r \in loginResult(email, password) :
              /\ req' = [NoReq EXCEPT !.op = "login", !.email = email,
                                      !.password = password]
              /\ res' = r
    /\ UNCHANGED <<users, nextId, now, env, strictQuery, issued, lastSet, inflight>>

(***************************************************************************)
(* Tokens a client can present: those the server may have minted up to     *)
(* now for an _id it has created, tokens signed with a key the server does *)
(* not use, a string that is no token, and no token at all.                *)
(***************************************************************************)
mintedAccess ==
    {[kind |-> "jwt", id |-> id, key |-> env.JWT_SECRET, exp |-> t + JWT_EXPIRES_IN] :
        id \in 1..(nextId - 1), t \in 0..now}

mintedRefresh ==
    {[kind |-> "jwt", id |-> id, key |-> refreshSecret, exp |-> t + JWT_REFRESH_EXPIRES_IN] :
        id \in 1..(nextId - 1), t \in 0..now}

forged ==
    {[kind |-> "jwt", id |-> u.id, key |-> OtherSecret, exp |-> now + 1] : u \in users}

TokenInputs == mintedAccess \cup mintedRefresh \cup forged \cup {NoToken, Garbage}

\* Authorization headers: none, "Bearer <token>" ("Bearer" alone carries no
\* token), and "Basic <token>" and "BearerX <token>" with a live access token.
HeaderInputs ==
    {NoHeader}
    \cup {[scheme |-> "Bearer", token |-> t] : t \in TokenInputs}
    \cup {[scheme |-> sc, token |-> t] :
             sc \in Schemes \ {"Bearer"}, t \in {x \in mintedAccess : now < x.exp}}

ProtectedRoutes == {"logout", "me", "users"}

(***************************************************************************)
(* protect, and the handlers behind it                                     *)
(***************************************************************************)
\* logout
logout(r) ==
    [r EXCEPT !.status = 200, !.message = "Logged out successfully.", !.sent = @ + 1]

\* getMe
getMe(r) ==
    IF r.reqUser # NoDoc
    THEN [r EXCEPT !.status = 200, !.message = "profile", !.user = r.reqUser.id,
                   !.body = [NoDoc EXCEPT !.id = r.reqUser.id,
                                          !.fullname = r.reqUser.fullname,
                                          !.email = r.reqUser.email,
                                          !.phonenumber = r.reqUser.phonenumber],
                   !.sent = @ + 1]
    ELSE [r EXCEPT !.status = 404, !.message = "User not found in request context.",
                   !.sent = @ + 1]

\* getAllUsers
getAllUsers(r) ==
    IF users = {}
    THEN [r EXCEPT !.status = 404, !.message = "No users found.", !.sent = @ + 1]
    ELSE [r EXCEPT !.status = 200, !.message = "users", !.sent = @ + 1,
                   !.list = {selectMinusPassword(u) : u \in users}]

\* The handler the router runs when protect calls next().
downstream(route, r) ==
    IF route = "logout" THEN logout(r)
    ELSE IF route = "me" THEN getMe(r)
    ELSE getAllUsers(r)

\* A gate that sends its error response and goes on to call next().
gateJsonAndNext(status, message) ==
    [json(status, message) EXCEPT !.gateSent = 1, !.next = TRUE]

\* A response the gate itself sends.
gateJson(status, message) == [json(status, message) EXCEPT !.gateSent = 1]

\* A gate that reads the user twice: findById, and a second query for the
\* same _id.
gateLookupTwice(id) == [docs |-> findById(id), calls |-> 2]

\* The gate's query, User.findById(decoded.id).select('-password'): the
\* documents found and the number of queries sent to the store.
gateLookup(id) == [docs |-> findById(id), calls |-> 1]

protectResult(header, route) ==
    IF header.scheme # Undefined /\ startsWithBearer(header)
    THEN IF env.JWT_SECRET = Undefined
         THEN gateJson(500, "Server configuration error.")
         ELSE IF ~jwtVerifies(header.token, env.JWT_SECRET)
         THEN gateJson(401, "Not authorized, token failed")
         ELSE LET found == gateLookup(header.token.id)
              IN  IF found.docs = {}
                  THEN [gateJson(401, "Not authorized, user not found")
                           EXCEPT !.gateLookups = found.calls]
                  ELSE LET user == CHOOSE u \in found.docs : TRUE
                       IN  downstream(route,
                               [NoRes EXCEPT !.next = TRUE,
                                             !.reqUser = selectMinusPassword(user),
                                             !.gateLookups = found.calls])
    ELSE gateJson(401, "Not authorized, no token provided")

protect ==
    /\ \E header \in HeaderInputs, route \in ProtectedRoutes :
          /\ req' = [NoReq EXCEPT !.op = "protect", !.header = header, !.route = route]
          /\ res' = protectResult(header, route)
    /\ UNCHANGED <<users, nextId, now, env, strictQuery, issued, lastSet, inflight>>

(***************************************************************************)
(* A request no route matches: app.all passes an AppError with status 404  *)
(* to the global error handler.                                            *)
(***************************************************************************)
unknownRoute ==
    /\ req' = [NoReq EXCEPT !.op = "unknownRoute", !.route = "unknown"]
    /\ res' = globalErrorHandler("AppError", 404, "Cannot find")
    /\ UNCHANGED <<users, nextId, now, env, strictQuery, issued, lastSet, inflight>>

(***************************************************************************)
(* refreshTokenRegenerate                                                  *)
(***************************************************************************)
\* refreshTokenRegenerate without the user lookup: the access token is
\* minted for the _id in the token.
refreshResultNoLookup(refreshToken) ==
    IF refreshToken = NoToken
    THEN json(401, "Not authorized, refresh token missing.")
    ELSE IF ~jwtVerifies(refreshToken, refreshSecret)
    THEN catchAsync("JsonWebTokenError")
    ELSE [json(200, "success") EXCEPT !.accessToken = generateAccessToken(refreshToken.id)]

refreshResult(refreshToken) ==
    IF refreshToken = NoToken
    THEN json(401, "Not authorized, refresh token missing.")
    ELSE IF ~jwtVerifies(refreshToken, refreshSecret)
    THEN catchAsync("JsonWebTokenError")
    ELSE IF findById(refreshToken.id) = {}
    THEN json(401, "Invalid refresh token: User not found.")
    ELSE LET user == CHOOSE u \in findById(refreshToken.id) : TRUE
         IN  [json(200, "success") EXCEPT !.accessToken = generateAccessToken(user.id)]

refreshTokenRegenerate ==
    /\ \E refreshToken \in TokenInputs :
          /\ req' = [NoReq EXCEPT !.op = "refresh", !.token = refreshToken]
          /\ res' = refreshResult(refreshToken)
    /\ UNCHANGED <<users, nextId, now, env, strictQuery, issued, lastSet, inflight>>

(***************************************************************************)
(* The OTP / password reset flow                                           *)
(***************************************************************************)
\* a < b on Dates; a comparison with an unset Date is false.
dateLt(a, b) == a # NoDate /\ a < b

\* sendOTP: the outcomes for one e-mail and one generated code.
sendOTPResult(email, otp) ==
    IF findMatches("email", email) = {}
    THEN {[res |-> json(200, "If user exists, OTP has been sent."),
           users |-> users, issued |-> issued]}
    ELSE {LET doc == [user EXCEPT !.resetPasswordToken = sha256(otp),
                                  !.resetPasswordExpire = now + OtpWindow]
          IN  [res |-> [json(200, "OTP token sent to email.") EXCEPT !.otp = otp],
               users |-> replaceDoc(persisted(preSave(doc, {}, "s1"), user)),
               issued |-> {i \in issued : i.id # user.id}] :
          user \in findMatches("email", email)}

sendOTP ==
    /\ \E email \in Emails \cup {Undefined}, otp \in Otps :
          \E r \in sendOTPResult(email, otp) :
              /\ users' = r.users
              /\ issued' = r.issued
              /\ req' = [NoReq EXCEPT !.op = "sendOTP", !.email = email]
              /\ res' = r.res
    /\ UNCHANGED <<nextId, now, env, strictQuery, lastSet, inflight>>

\* The test of verifyOTP without the comparison of the hashes.
otpRejectedNoHash(user, hashedOTP) == dateLt(user.resetPasswordExpire, now)

\* The test of verifyOTP on the document found.
otpRejected(user, hashedOTP) ==
    \/ user.resetPasswordToken # hashedOTP
    \/ dateLt(user.resetPasswordExpire, now)

\* verifyOTP: the outcomes for one request; temporaryResetToken is the value
\* randomBytes generates.
verifyOTPResult(email, otp) ==
    IF otp = Undefined
    THEN {[res |-> catchAsync("TypeError"), users |-> users, issued |-> issued]}
    ELSE IF findMatches("email", email) = {}
    THEN {[res |-> json(400, "Invalid or expired OTP/Code."),
           users |-> users, issued |-> issued]}
    ELSE {[res |-> json(400, "Invalid or expired OTP/Code."),
           users |-> users, issued |-> issued] :
              user \in {u \in findMatches("email", email) : otpRejected(u, sha256(otp))}}
         \cup
         {LET doc == [user EXCEPT !.resetPasswordToken = temporaryResetToken]
          IN  [res |-> [json(200, "OTP verified successfully.")
                           EXCEPT !.ticket = temporaryResetToken, !.user = user.id],
               users |-> replaceDoc(persisted(preSave(doc, {}, "s1"), user)),
               issued |-> {i \in issued : i.id # user.id}
                          \cup {[id |-> user.id, ticket |-> temporaryResetToken]}] :
              user \in {u \in findMatches("email", email) : ~otpRejected(u, sha256(otp))},
              temporaryResetToken \in RandomHex}

verifyOTP ==
    /\ \E email \in Emails \cup {Undefined}, otp \in Otps \cup {Undefined} :
          \E r \in verifyOTPResult(email, otp) :
              /\ users' = r.users
              /\ issued' = r.issued
              /\ req' = [NoReq EXCEPT !.op = "verifyOTP", !.email = email, !.otp = otp]
              /\ res' = r.res
    /\ UNCHANGED <<nextId, now, env, strictQuery, lastSet, inflight>>

\* The values a client can send as temporaryResetToken.
TicketInputs == RandomHex \cup {Undefined, sha256("111111")}

\* A test that takes every value as present.
falsyNever(x) == FALSE

\* !x of JavaScript on the strings of the model.
falsy(x) == x = Undefined \/ x = ""

\* resetPassword from the assignments on: doc is the document found with the
\* new password and the cleared reset fields, stored the document the
\* collection holds for its _id.  save() validates, runs the pre-save hook
\* (the salt is the one it generates; bcrypt may also throw) and writes.
resetSaves(doc, stored) ==
    IF ~validates(doc, {"password"})
    THEN {[res |-> catchAsync("ValidationError"), users |-> users, issued |-> issued]}
    ELSE {[res |-> sendTokenResponse(stored, 200),
           users |-> replaceDoc(persisted(preSave(doc, {"password"}, salt), stored)),
           issued |-> {i \in issued : i.id # stored.id}] : salt \in Salts}
         \cup {[res |-> catchAsync("Error"), users |-> users, issued |-> issued]}

\* The assignments of resetPassword on the document found.
resetAssigns(user, newPassword) ==
    [user EXCEPT !.password = newPassword,
                 !.resetPasswordToken = Undefined,
                 !.resetPasswordExpire = NoDate]

\* resetPassword up to the lookup: the response it sends, or NoRes when the
\* lookup found a user.
resetChecks(temporaryResetToken, newPassword, confirmPassword) ==
    IF falsy(newPassword) \/ newPassword # confirmPassword
    THEN json(400, "Passwords do not match or new password is empty.")
    ELSE IF findMatches("resetPasswordToken", temporaryResetToken) = {}
    THEN json(400, "Invalid or expired temporary reset token.")
    ELSE NoRes

\* resetPassword: the outcomes for one request.
resetPasswordResult(temporaryResetToken, newPassword, confirmPassword) ==
    IF resetChecks(temporaryResetToken, newPassword, confirmPassword) # NoRes
    THEN {[res |-> resetChecks(temporaryResetToken, newPassword, confirmPassword),
           users |-> users, issued |-> issued]}
    ELSE UNION {resetSaves(resetAssigns(user, newPassword), user) :
                   user \in findMatches("resetPasswordToken", temporaryResetToken)}

\* The pairs <<newPassword, confirmPassword>> of the resets of the model: a
\* valid pair, a pair that is too short, an empty pair, a mismatch, a missing
\* password.
ResetPasswords ==
    {<<"secret2", "secret2">>, <<"abc", "abc">>, <<"", "">>,
     <<"secret1", "secret2">>, <<Undefined, "secret2">>}

resetPassword ==
    /\ \E temporaryResetToken \in TicketInputs, pair \in ResetPasswords :
          LET newPassword == pair[1]
              confirmPassword == pair[2]
          IN
          \E r \in resetPasswordResult(temporaryResetToken, newPassword,
                                       confirmPassword) :
              /\ users' = r.users
              /\ issued' = r.issued
              /\ lastSet' = IF r.res.status = 200
                            THEN setPassword(r.res.user, newPassword)
                            ELSE lastSet
              /\ req' = [NoReq EXCEPT !.op = "resetPassword",
                                      !.ticket = temporaryResetToken,
                                      !.password = newPassword,
                                      !.confirm = confirmPassword]
              /\ res' = r.res
    /\ UNCHANGED <<nextId, now, env, strictQuery, inflight>>

\* Two resets handled at the same time: resetBegin is the handler up to the
\* await of save(), resetFinish is save() and the response.  A request that
\* resetBegin refuses is over, and the worker is free again.
resetBegin(w) ==
    /\ inflight[w].stage = "idle"
    /\ \E temporaryResetToken \in TicketInputs, pair \in ResetPasswords :
          LET newPassword == pair[1]
              confirmPassword == pair[2]
              early == resetChecks(temporaryResetToken, newPassword, confirmPassword)
          IN  /\ \/ /\ early # NoRes
                    /\ inflight' = inflight
                 \/ /\ early = NoRes
                    /\ \E user \in findMatches("resetPasswordToken",
                                               temporaryResetToken) :
                          inflight' = [inflight EXCEPT ![w] =
                              [Idle EXCEPT !.op = "reset", !.stage = "save",
                                           !.ticket = temporaryResetToken,
                                           !.read = user,
                                           !.doc = resetAssigns(user, newPassword)]]
              /\ req' = [NoReq EXCEPT !.op = "resetBegin",
                                      !.ticket = temporaryResetToken,
                                      !.password = newPassword,
                                      !.confirm = confirmPassword]
              /\ res' = early
    /\ UNCHANGED <<users, nextId, now, env, strictQuery, issued, lastSet>>

resetFinish(w) ==
    /\ inflight[w].stage = "save"
    /\ \E stored \in findById(inflight[w].doc.id) :
          \E r \in resetSaves(inflight[w].doc, stored) :
              /\ users' = r.users
              /\ issued' = r.issued
              /\ lastSet' = IF r.res.status = 200
                            THEN setPassword(stored.id, inflight[w].doc.password)
                            ELSE lastSet
              /\ inflight' = [inflight EXCEPT ![w] =
                                 [inflight[w] EXCEPT !.stage = "done", !.res = r.res]]
              /\ req' = [NoReq EXCEPT !.op = "resetFinish",
                                      !.ticket = inflight[w].ticket,
                                      !.password = inflight[w].doc.password]
              /\ res' = r.res
    /\ UNCHANGED <<nextId, now, env, strictQuery>>

(***************************************************************************)
(* The environment: the clock, and a document removed from the collection  *)
(* by an administrator.                                                    *)
(***************************************************************************)
Tick ==
    /\ now < MaxTime
    /\ now' = now + 1
    /\ UNCHANGED <<users, nextId, env, strictQuery, issued, lastSet, inflight, req, res>>

DeleteUser ==
    /\ \E u \in users :
          /\ users' = users \ {u}
          /\ issued' = {i \in issued : i.id # u.id}
          /\ lastSet' = {l \in lastSet : l.id # u.id}
    /\ req' = [NoReq EXCEPT !.op = "delete"]
    /\ res' = NoRes
    /\ UNCHANGED <<nextId, now, env, strictQuery, inflight>>

(***************************************************************************)
(* Specifications.  SpecReset: accounts and the password reset flow, under *)
(* either Mongoose build.  SpecTokens: accounts, the gate and the refresh  *)
(* endpoint, under either configuration of the refresh secret (no handler  *)
(* of it queries a path outside the schema, so strictQuery is not read).   *)
(***************************************************************************)
InitReset == Init /\ env.JWT_REFRESH_SECRET # Undefined

NextReset ==
    \/ signup
    \/ login
    \/ sendOTP
    \/ verifyOTP
    \/ resetPassword
    \/ Tick

SpecReset == InitReset /\ [][NextReset]_vars

InitTokens == Init /\ ~strictQuery

NextTokens ==
    \/ signup
    \/ login
    \/ protect
    \/ refreshTokenRegenerate
    \/ unknownRoute
    \/ DeleteUser
    \/ Tick

SpecTokens == InitTokens /\ [][NextTokens]_vars

\* SpecGate: accounts and the gate, under either configuration of the refresh
\* secret.  SpecRefresh: accounts and the refresh endpoint, likewise.
NextGate ==
    \/ signup
    \/ protect
    \/ DeleteUser
    \/ Tick

SpecGate == InitTokens /\ [][NextGate]_vars

NextRefresh ==
    \/ signup
    \/ refreshTokenRegenerate
    \/ DeleteUser
    \/ Tick

SpecRefresh == InitTokens /\ [][NextRefresh]_vars

\* SpecRace: two signups handled at the same time, and the reset flow.
InitRace == Init /\ env.JWT_REFRESH_SECRET # Undefined /\ ~strictQuery

NextRace ==
    \/ \E w \in Workers : signupBegin(w)
    \/ \E w \in Workers : signupFinish(w)
    \/ sendOTP
    \/ verifyOTP
    \/ resetPassword

SpecRace == InitRace /\ [][NextRace]_vars

\* SpecSession: accounts, the gate, the refresh endpoint, sendOTP and
\* resetPassword.
InitSession == Init /\ env.JWT_REFRESH_SECRET # Undefined /\ ~strictQuery

NextSession ==
    \/ signup
    \/ login
    \/ protect
    \/ refreshTokenRegenerate
    \/ sendOTP
    \/ resetPassword
    \/ Tick

SpecSession == InitSession /\ [][NextSession]_vars

\* SpecResetRace: accounts, and two resets handled at the same time, under
\* either Mongoose build.  sendOTP and verifyOTP write nothing to the
\* collection in any reachable state (C22, C1) and are left out.
InitResetRace == Init /\ env.JWT_REFRESH_SECRET # Undefined

NextResetRace ==
    \/ signup
    \/ \E w \in Workers : resetBegin(w)
    \/ \E w \in Workers : resetFinish(w)

SpecResetRace == InitResetRace /\ [][NextResetRace]_vars

(***************************************************************************)
(* Properties.  A step with now' = now that changes the state is a handler *)
(* step; req' is then the request it handled and res' its response.        *)
(***************************************************************************)
Handled(op) == now' = now /\ req'.op = op

\* The stored documents a request's e-mail names.
usersWithEmail(email) == {u \in users : u.email = toLowerCase(email)}

\* C1: OTP round trip.  When sendOTP has just disclosed code c for the e-mail
\* of an existing user, verifyOTP with that e-mail and c (the clock has not
\* moved) succeeds; and a verifyOTP that repeats a successful one fails.
C1_OtpRoundTrip ==
    [][/\ ( /\ Handled("verifyOTP")
            /\ req.op = "sendOTP" /\ req.email # Undefined /\ res.otp # Undefined
            /\ req'.email = req.email /\ req'.otp = res.otp )
          => res'.status = 200
       /\ ( /\ Handled("verifyOTP")
            /\ req.op = "verifyOTP" /\ res.status = 200
            /\ req'.email = req.email /\ req'.otp = req.otp )
          => res'.status # 200
      ]_vars

\* C2: resetPassword changes a password only on a ticket that a successful
\* verifyOTP returned for that user and that is still outstanding; every other
\* request fails with 400 and changes no document.
C2_ResetNeedsTicket ==
    [][Handled("resetPassword") =>
          IF \E i \in issued : i.ticket = req'.ticket
          THEN res'.status = 200 =>
                   [id |-> res'.user, ticket |-> req'.ticket] \in issued
          ELSE res'.status = 400 /\ users' = users
      ]_vars

\* C3: verifyOTP with a code answers 400 whenever no user has the e-mail, or
\* sha256(code) differs from the stored resetPasswordToken, or the stored
\* resetPasswordExpire has passed; it then changes no document and returns no
\* ticket.
C3_VerifyRejects ==
    [][( /\ Handled("verifyOTP")
         /\ req'.otp # Undefined
         /\ \A u \in findMatches("email", req'.email) :
               \/ u.resetPasswordToken # sha256(req'.otp)
               \/ (u.resetPasswordExpire # NoDate /\ u.resetPasswordExpire < now) )
       => ( /\ res'.status = 400
            /\ res'.ticket = Undefined
            /\ users' = users
            /\ issued' = issued )
      ]_vars

\* C3 witness: verifyOTP has answered 400 to a code sent for an existing user.
C3_Witness ==
    /\ req.op = "verifyOTP"
    /\ req.otp \in Otps
    /\ req.email # Undefined
    /\ usersWithEmail(req.email) # {}
    /\ res.status = 400

\* C4: a reset ticket is consumed once.  After a successful resetPassword the
\* user's resetPasswordToken and resetPasswordExpire are cleared, and a
\* resetPassword that repeats its ticket fails and changes no password.
C4_TicketConsumedOnce ==
    [][/\ (req.op = "resetPassword" /\ res.status = 200) =>
              \A u \in users : u.id = res.user =>
                  /\ u.resetPasswordToken = Undefined
                  /\ u.resetPasswordExpire = NoDate
       /\ ( /\ Handled("resetPassword")
            /\ req.op = "resetPassword" /\ res.status = 200
            /\ req'.ticket = req.ticket )
          => (res'.status # 200 /\ users' = users)
      ]_vars

\* C5: sendOTP for an e-mail without a user answers what sendOTP for an
\* existing user answers (the same status, the same message, the same fields)
\* and writes nothing.
C5_SendOtpIndistinguishable ==
    [][( /\ Handled("sendOTP")
         /\ req.op = "sendOTP"
         /\ req.email # Undefined /\ usersWithEmail(req.email) # {}
         /\ req'.email # Undefined /\ usersWithEmail(req'.email) = {} )
       => ( /\ res'.status = res.status
            /\ res'.message = res.message
            /\ (res'.otp = Undefined) = (res.otp = Undefined)
            /\ users' = users )
      ]_vars

\* C6: the gate answers 401, once, and does not call the downstream handler
\* when the Authorization header is absent or is not "Bearer <token>", when
\* the token is no token, is signed with another key, or has expired, or when
\* no user has the _id in the token.
C6_GateRejects ==
    [][( /\ Handled("protect")
         /\ \/ req'.header.scheme # "Bearer"
            \/ req'.header.token.kind # "jwt"
            \/ req'.header.token.key # env.JWT_SECRET
            \/ req'.header.token.exp <= now
            \/ \A u \in users : u.id # req'.header.token.id )
       => ( /\ res'.status = 401
            /\ res'.sent = 1
            /\ ~res'.next
            /\ res'.reqUser = NoDoc )
      ]_vars

\* C7: when the gate accepts (a header that starts with "Bearer" and carries
\* an unexpired token signed with the access secret whose user exists) it
\* sends nothing itself, calls the downstream handler, and has attached the
\* document whose _id is in the token, without its password.
C7_GateAttachesUser ==
    [][( /\ Handled("protect")
         /\ req'.header.scheme \in {"Bearer", "BearerX"}
         /\ req'.header.token.kind = "jwt"
         /\ req'.header.token.key = env.JWT_SECRET
         /\ now < req'.header.token.exp
         /\ \E u \in users : u.id = req'.header.token.id )
       => ( /\ res'.next
            /\ res'.gateSent = 0
            /\ \E u \in users :
                  /\ u.id = req'.header.token.id
                  /\ res'.reqUser = [u EXCEPT !.password = Undefined] )
      ]_vars

\* C7 witness: the gate has let a request through to getMe while another
\* user exists as well.
C7_Witness ==
    /\ req.op = "protect"
    /\ req.route = "me"
    /\ res.next
    /\ res.status = 200
    /\ res.reqUser.id = req.header.token.id
    /\ Cardinality(users) = 2

\* C8: the refresh endpoint answers 401 and mints no access token when the
\* refresh token is missing, is no token, is signed with another key, or has
\* expired.
C8_RefreshRejects ==
    [][( /\ Handled("refresh")
         /\ \/ req'.token = NoToken
            \/ req'.token.kind # "jwt"
            \/ req'.token.key # refreshSecret
            \/ req'.token.exp <= now )
       => ( /\ res'.status = 401
            /\ res'.accessToken = NoToken )
      ]_vars

\* C9: a refresh token signed with the refresh secret and not expired gets,
\* when its user exists, 200 with a fresh access token for the _id in it, no
\* new refresh token and no change of the store (so the same request gets the
\* same answer again, as after a successful refresh); when its user is gone it
\* gets 401 and no token.
C9_RefreshFlow ==
    [][( /\ Handled("refresh")
         /\ req'.token.kind = "jwt"
         /\ req'.token.key = refreshSecret
         /\ now < req'.token.exp )
       => /\ users' = users
          /\ IF \E u \in users : u.id = req'.token.id
             THEN /\ res'.status = 200
                  /\ res'.accessToken = [kind |-> "jwt", id |-> req'.token.id,
                                         key |-> env.JWT_SECRET,
                                         exp |-> now + JWT_EXPIRES_IN]
                  /\ res'.refreshToken = NoToken
             ELSE /\ res'.status = 401
                  /\ res'.accessToken = NoToken
      ]_vars

\* C9 witness: a refresh token minted before now has been exchanged for an
\* access token.
C9_Witness ==
    /\ req.op = "refresh"
    /\ res.status = 200
    /\ res.accessToken.id = req.token.id
    /\ req.token.exp < now + JWT_REFRESH_EXPIRES_IN
    /\ now < req.token.exp

\* C10: a signup whose e-mail belongs to a user is answered 400 and leaves the
\* collection as it was.
C10_DuplicateSignup ==
    [][( /\ Handled("signup")
         /\ req'.email # Undefined
         /\ usersWithEmail(req'.email) # {} )
       => ( /\ res'.status = 400
            /\ users' = users )
      ]_vars

\* C10 witness: a complete signup has been refused because its e-mail, in
\* another spelling, belongs to a user.
C10_Witness ==
    /\ req.op = "signup"
    /\ req.email = "A@B.com"
    /\ res.status = 400
    /\ res.message = "User already exists with this email."
    /\ usersWithEmail(req.email) # {}

\* The stored documents that hold the e-mail or the phone number of doc.
sameKey(doc) ==
    {u \in users : u.email = doc.email \/ u.phonenumber = doc.phonenumber}

\* C11: concurrent signups.  When the User.create of a signup that passed the
\* existence check (with a password the schema accepts) meets a stored user
\* with its e-mail or its phone number, the request is answered 400 and no
\* user is created.
C11_RaceLoserGets400 ==
    [][\A w \in Workers :
          ( /\ Handled("signupFinish")
            /\ inflight[w].stage = "create"
            /\ inflight'[w].stage = "done"
            /\ strlen(inflight[w].doc.password) >= minlength
            /\ sameKey(inflight[w].doc) # {} )
          => ( /\ res'.status = 400
               /\ users' = users )
      ]_vars

\* C12: uniqueness.  No two stored users share an e-mail, and no two share a
\* phone number.
C12_UniqueEmailAndPhone ==
    \A u, v \in users :
        u # v => /\ u.email # v.email
                 /\ u.phonenumber # v.phonenumber

\* Two signups with the same e-mail both passed the existence check, both
\* have run User.create, and one user is stored.
C12_Witness ==
    /\ Cardinality(users) = 1
    /\ \E w, v \in Workers :
          /\ w # v
          /\ inflight[w].stage = "done" /\ inflight[w].doc # NoDoc
          /\ inflight[v].stage = "done" /\ inflight[v].doc # NoDoc
          /\ inflight[w].doc.email = inflight[v].doc.email

\* C13: passwords at rest.  The stored password of every user is a salted
\* hash of the plaintext last set for that user, and it is no plaintext a
\* client submitted.
C13_PasswordAtRestHashed ==
    \A u \in users :
        /\ u.password \notin Passwords \cup {"", Undefined}
        /\ \E l \in lastSet :
              /\ l.id = u.id
              /\ \E salt \in Salts : u.password = bcryptHash(l.password, salt)

\* resetPassword has just stored a new password.
C13_Witness ==
    /\ req.op = "resetPassword"
    /\ res.status = 200
    /\ \E u \in users :
          /\ u.id = res.user
          /\ \E salt \in Salts : u.password = bcryptHash(req.password, salt)

\* C14: login.  A login with an e-mail and a password succeeds (200 with a
\* token pair for that user) exactly when a stored user has that e-mail and the
\* password is the one last set for that user by signup or resetPassword;
\* otherwise it answers 401.  It changes nothing stored.
C14_LoginIffCurrentPassword ==
    [][( /\ Handled("login")
         /\ req'.email # Undefined
         /\ req'.password # Undefined )
       => ( /\ users' = users
            /\ issued' = issued
            /\ res'.status \in {200, 401}
            /\ res'.status = 200 <=>
                  \E u \in usersWithEmail(req'.email) :
                      [id |-> u.id, password |-> req'.password] \in lastSet
            /\ res'.status = 200 =>
                  /\ res'.user \in {u.id : u \in usersWithEmail(req'.email)}
                  /\ res'.accessToken = generateAccessToken(res'.user)
                  /\ res'.refreshToken = generateRefreshToken(res'.user) )
      ]_vars

\* A login with the password a resetPassword set has succeeded.
C14_Witness ==
    /\ req.op = "login"
    /\ res.status = 200
    /\ req.password = "secret2"

\* C15: the global error handler.  For an error that reached it, one response
\* is sent: the AppError of an unknown route with its own status and message,
\* any other error as the generic 500.
C15_OneResponsePerError ==
    /\ req.op = "unknownRoute" =>
          /\ res.sent = 1
          /\ res.status = 404
          /\ res.message = "Cannot find"
    /\ res.message = "Something went wrong" =>
          /\ res.sent = 1
          /\ res.status = 500

\* The gate lets a request with this header through.
accepted(header) == protectResult(header, "me").next

\* C16: stateless tokens.  In every state, after any logout, refresh, login
\* or password reset, the gate accepts a header exactly when it starts with
\* Bearer and its token is signed with the access secret, is not expired and
\* names a stored user.
C16_TokenValidityStateless ==
    \A header \in HeaderInputs :
        accepted(header) <=>
            /\ header.scheme \in {"Bearer", "BearerX"}
            /\ header.token.kind = "jwt"
            /\ header.token.key = env.JWT_SECRET
            /\ now < header.token.exp
            /\ \E u \in users : u.id = header.token.id

\* A logout has been answered, and the token it came with is still accepted.
C16_Witness ==
    /\ req.op = "protect"
    /\ req.route = "logout"
    /\ res.status = 200
    /\ accepted(req.header)

\* A user object of a response body that carries no password and no reset
\* field.
noSecrets(doc) ==
    /\ doc.password = Undefined
    /\ doc.resetPasswordToken = Undefined
    /\ doc.resetPasswordExpire = NoDate

\* C17: responses.  The list of GET /users and the user object of the
\* responses of signup, login, me and reset-password carry no password hash
\* and no reset field.
C17_NoSecretsInResponses ==
    /\ \A doc \in res.list : noSecrets(doc)
    /\ noSecrets(res.body)

\* GET /users has returned the stored users.
C17_Witness ==
    /\ req.op = "protect"
    /\ req.route = "users"
    /\ res.status = 200
    /\ {doc.id : doc \in res.list} = {u.id : u \in users}
    /\ users # {}

\* C18: saves that do not change the password.  A sendOTP or a verifyOTP
\* leaves the stored password of every user as it was.
C18_OtpSavesKeepPassword ==
    [][(Handled("sendOTP") \/ Handled("verifyOTP"))
       => \A u \in users :
             \E v \in users' : v.id = u.id /\ v.password = u.password
      ]_vars

\* sendOTP has just saved the document of a user.
C18_Witness ==
    /\ req.op = "sendOTP"
    /\ res.otp # Undefined
    /\ usersWithEmail(req.email) # {}

\* C19: resetPassword checks the passwords first.  A request whose
\* newPassword is absent or empty, or differs from confirmPassword, is answered
\* 400 by that check, and nothing stored changes.
C19_ResetChecksPasswordsFirst ==
    [][( /\ Handled("resetPassword")
         /\ \/ req'.password \in {Undefined, ""}
            \/ req'.password # req'.confirm )
       => ( /\ res'.status = 400
            /\ res'.message = "Passwords do not match or new password is empty."
            /\ users' = users
            /\ issued' = issued
            /\ lastSet' = lastSet )
      ]_vars

\* A reset with an empty newPassword equal to confirmPassword was refused while
\* its temporaryResetToken selected a stored user.
C19_Witness ==
    /\ req.op = "resetPassword"
    /\ req.password = ""
    /\ req.confirm = ""
    /\ res.status = 400
    /\ findMatches("resetPasswordToken", req.ticket) # {}

\* C20: the ticket outlives the OTP window.  A verifyOTP with the code sendOTP
\* has just disclosed issues a ticket that the reset-OTP-hash field then
\* holds; and a resetPassword with a ticket that the field of a stored user
\* holds, and with a valid pair of passwords, is not refused, however late the
\* clock is against resetPasswordExpire.
C20_TicketOutlivesWindow ==
    [][/\ ( /\ Handled("verifyOTP")
            /\ req.op = "sendOTP"
            /\ res.otp # Undefined
            /\ req'.email = req.email
            /\ req'.otp = res.otp )
          => ( /\ res'.status = 200
               /\ res'.ticket # Undefined
               /\ \E u \in users' : u.resetPasswordToken = res'.ticket )
       /\ ( /\ Handled("resetPassword")
            /\ req'.ticket # Undefined
            /\ \E u \in users : u.resetPasswordToken = req'.ticket
            /\ req'.password = "secret2"
            /\ req'.confirm = "secret2" )
          => res'.status # 400
      ]_vars

C22_SendOtpOverwrites ==
    [][/\ ( /\ Handled("sendOTP")
            /\ req'.email # Undefined
            /\ usersWithEmail(req'.email) # {} )
          => \E u \in users' :
                /\ u.email = toLowerCase(req'.email)
                /\ u.resetPasswordToken = sha256(res'.otp)
                /\ u.resetPasswordExpire = now + OtpWindow
       /\ ( /\ Handled("verifyOTP")
            /\ res'.status = 200 )
          => \E u \in users : u.resetPasswordToken = sha256(req'.otp)
      ]_vars

\* C23: token kinds.  A token the server can have minted only as a refresh
\* token does not pass the gate as a bearer token, and a token it can have
\* minted only as an access token gets no access token from the refresh
\* endpoint, whether JWT_REFRESH_SECRET is set or not.
C23_TokenKindsDistinct ==
    [][/\ ( /\ Handled("protect")
            /\ req'.header.token \in mintedRefresh \ mintedAccess )
          => ~res'.next
       /\ ( /\ Handled("refresh")
            /\ req'.token \in mintedAccess \ mintedRefresh )
          => res'.accessToken = NoToken
      ]_vars

\* C24: one outcome per request at the gate.  Either the gate sends one error
\* response, which is the only response, and does not call next(); or it
\* calls next() and sends nothing itself.
C24_GateOneOutcome ==
    [][Handled("protect")
       => \/ ( /\ res'.gateSent = 1
               /\ res'.sent = 1
               /\ res'.status \in {401, 500}
               /\ ~res'.next )
          \/ ( /\ res'.gateSent = 0
               /\ res'.next )
      ]_vars

\* The header "Bearer" without a token was refused with one response: the
\* token is undefined when the catch block answers.
C24_Witness ==
    /\ req.op = "protect"
    /\ req.header = [scheme |-> "Bearer", token |-> NoToken]
    /\ res.gateSent = 1
    /\ res.sent = 1
    /\ ~res.next

\* C25: concurrent resets.  Of two resets that carried the same
\* temporaryResetToken and whose lookups returned the same stored document
\* (each read the user before the other saved), at most one sets a password
\* and gets a token pair.
C25_TicketNotConsumedTwice ==
    \A w, v \in Workers :
        ( /\ w # v
          /\ inflight[w].op = "reset" /\ inflight[w].stage = "done"
          /\ inflight[v].op = "reset" /\ inflight[v].stage = "done"
          /\ inflight[w].ticket = inflight[v].ticket
          /\ inflight[w].read # NoDoc
          /\ inflight[w].read = inflight[v].read )
        => ~( /\ inflight[w].res.status = 200
              /\ inflight[v].res.status = 200 )
====
